---- MODULE Spec2Model ----
(***************************************************************************)
(* Model of the Pokemon dataset builder (scripts/fetch-pokemon style       *)
(* ingestion script, src/unnamed/part_001) as a state machine.             *)
(*                                                                         *)
(* JavaScript runs the script on one event loop: every action below is one *)
(* run-to-completion segment, from the event that resumes a coroutine      *)
(* (a fetch settling, a timer firing) to its next await.                   *)
(***************************************************************************)
EXTENDS Integers, Sequences, FiniteSets, TLC

(***************************************************************************)
(* Bounds of the model.                                                    *)
(***************************************************************************)
\* largest number of entries the index endpoint returns
MaxTotal == 3

(***************************************************************************)
(* Program constants.                                                      *)
(***************************************************************************)
\* await sleep(500) between the first attempt and the retry
BACKOFF_MS == 500
\* await sleep(100) at the end of every loop iteration of a worker
THROTTLE_MS == 100

VARIABLES
    CONCURRENCY,   \* parseInt(process.env.POKEMON_CONCURRENCY ?? '8', 10)
    mainPc,        \* position of main(): "awaitIndex", "awaitAll", "done", "exited"
    exitCode,      \* exit status of the process
    entries,       \* list.results: the identifier behind each index entry
    total,         \* entries.length
    results,       \* new Array(total): slot per index (hole, null or payload)
    pointer,       \* the shared cursor
    completed,     \* the completed counter
    wpc,           \* per worker: "fetch", "backoff", "throttle", "done"
    currentIndex,  \* per worker: the index it claimed last
    attemptNo,     \* per worker: 1 in the outer try, 2 in the retry
    inflight,      \* per worker: the sub-requests issued and not yet settled
    timer,         \* per worker: milliseconds of the pending sleep (0: none)
    output,        \* content written to OUTPUT_PATH
    writes,        \* number of fs.writeFileSync calls made
    claimCount,    \* history: per index, how many times it was claimed
    started,       \* history: per index, how many attempts were started
    outcomes,      \* history: per index, the outcome of each finished attempt
    paused,        \* history: per index, the pauses slept between attempts
    issued,        \* history: per worker, sub-requests issued in this attempt
    indexFailed,   \* history: the index request was rejected
    evoInput,      \* fetchEvolutionChain: its url and the response to it
    evoChain,      \* fetchEvolutionChain: the chain built
    evoPc,         \* fetchEvolutionChain: "call" or "returned"
    locInput,      \* fetchLocations: its url and the response to it
    locResult,     \* fetchLocations: the locations returned, entries examined
    locPc,         \* fetchLocations: "call" or "returned"
    moveInput,     \* extractMoves: its argument
    moveResult,    \* extractMoves: the list returned
    movePc,        \* extractMoves: "call" or "returned"
    queryInput,    \* filterAndSortPokemon: the collection and the FilterState
    queryResult,   \* filterAndSortPokemon: the sequence returned
    queryPc,       \* filterAndSortPokemon: "call" or "returned"
    suggestInput,  \* getAutocompleteSuggestions: collection, query, maximum
    suggestResult, \* getAutocompleteSuggestions: the sequence returned
    suggestPc,     \* getAutocompleteSuggestions: "call" or "returned"
    filters,          \* PokemonExplorer: the FilterState
    autocompleteOpen, \* PokemonExplorer: the suggestion list is open
    highlightedIndex, \* PokemonExplorer: null or the suggestion highlighted
    focused,          \* PokemonExplorer: the search input has the focus
    blurTimers,       \* PokemonExplorer: callbacks scheduled by blur, not yet run
    lastEvent         \* history: the handler that ran last

ingestVars == <<CONCURRENCY, mainPc, exitCode, entries, total, results, pointer,
                completed, wpc, currentIndex, attemptNo, inflight, timer,
                output, writes, claimCount, started, outcomes, paused, issued,
                indexFailed>>

evoVars == <<evoInput, evoChain, evoPc>>

locVars == <<locInput, locResult, locPc>>

\* the variables outside the ingestion run
moveVars == <<moveInput, moveResult, movePc>>

queryVars == <<queryInput, queryResult, queryPc>>

suggestVars == <<suggestInput, suggestResult, suggestPc>>

explorerVars == <<filters, autocompleteOpen, highlightedIndex, focused,
                  blurTimers, lastEvent>>

helperVars == <<evoVars, locVars, moveVars, queryVars, suggestVars, explorerVars>>

vars == <<ingestVars, helperVars>>

(***************************************************************************)
(* Numbers as JavaScript has them here: an integer or NaN.                 *)
(***************************************************************************)
NaN == [nan |-> TRUE, val |-> 0]
Num(n) == [nan |-> FALSE, val |-> n]

Min(a, b) == IF a <= b THEN a ELSE b

\* Math.min: NaN if either argument is NaN
MathMin(a, b) ==
    IF a.nan \/ b.nan THEN NaN ELSE Num(Min(a.val, b.val))

\* ToLength, applied by Array.from to the length property: NaN and
\* negative numbers become 0
ToLength(x) ==
    IF x.nan \/ x.val <= 0 THEN 0 ELSE x.val

(***************************************************************************)
(* parseInt(text, 10) over strings given as sequences of characters.       *)
(***************************************************************************)
DigitChars == <<"0", "1", "2", "3", "4", "5", "6", "7", "8", "9">>

IsDigit(c) == \E d \in 1..10 : DigitChars[d] = c

DigitValue(c) == (CHOOSE d \in 1..10 : DigitChars[d] = c) - 1

RECURSIVE SkipWhitespace(_)
SkipWhitespace(s) ==
    IF s # <<>> /\ Head(s) = " " THEN SkipWhitespace(Tail(s)) ELSE s

RECURSIVE LeadingDigits(_)
LeadingDigits(s) ==
    IF s # <<>> /\ IsDigit(Head(s))
    THEN <<Head(s)>> \o LeadingDigits(Tail(s))
    ELSE <<>>

RECURSIVE DecimalValue(_, _)
DecimalValue(ds, acc) ==
    IF ds = <<>> THEN acc
    ELSE DecimalValue(Tail(ds), acc * 10 + DigitValue(Head(ds)))

parseInt(text) ==
    LET t == SkipWhitespace(text)
        signed == t # <<>> /\ Head(t) \in {"+", "-"}
        negative == t # <<>> /\ Head(t) = "-"
        ds == LeadingDigits(IF signed THEN Tail(t) ELSE t)
    IN  IF ds = <<>> THEN NaN
        ELSE Num(IF negative THEN 0 - DecimalValue(ds, 0)
                             ELSE DecimalValue(ds, 0))

\* values of the environment variable POKEMON_CONCURRENCY
Unset == [set |-> FALSE, text |-> <<>>]
EnvText(s) == [set |-> TRUE, text |-> s]

ConcurrencyEnvs ==
    { Unset, EnvText(<<"1">>), EnvText(<<"2">>), EnvText(<<" ", "2", "x">>),
      EnvText(<<"0">>), EnvText(<<"-", "1">>), EnvText(<<"x">>), EnvText(<<>>) }

\* process.env.POKEMON_CONCURRENCY ?? '8'
ConcurrencyOf(env) == parseInt(IF env.set THEN env.text ELSE <<"8">>)

(***************************************************************************)
(* Result slots and the final filter and sort.                             *)
(***************************************************************************)
Hole == [kind |-> "hole", id |-> 0]
Null == [kind |-> "null", id |-> 0]
Payload(id) == [kind |-> "record", id |-> id]

Indices(t) == 0..(t - 1)

\* the array as a sequence in index order
AsSeq(arr, t) == [k \in 1..t |-> arr[k - 1]]

\* a filter that drops only the holes and keeps the null slots
KeepNullSlots(s) == SelectSeq(s, LAMBDA r : r.kind # "hole")

\* results.filter(Boolean): holes are not visited, null is falsy
FilterBoolean(s) == SelectSeq(s, LAMBDA r : r.kind = "record")

\* insertion of x behind every element that does not compare greater
RECURSIVE InsertById(_, _)
InsertById(s, x) ==
    IF s = <<>> THEN <<x>>
    ELSE IF Head(s).id - x.id > 0 THEN <<x>> \o s
    ELSE <<Head(s)>> \o InsertById(Tail(s), x)

\* no sort: the slots stay in index order
KeepSlotOrder(s) == s

\* .sort((a, b) => (a?.id ?? 0) - (b?.id ?? 0)): a stable sort by id
RECURSIVE SortById(_)
SortById(s) ==
    IF s = <<>> THEN <<>>
    ELSE InsertById(SortById(SubSeq(s, 1, Len(s) - 1)), s[Len(s)])

\* what main() writes: results.filter(Boolean).sort(...)
FilteredResults(arr, t) == SortById(FilterBoolean(AsSeq(arr, t)))

(***************************************************************************)
(* The worker pool.                                                        *)
(***************************************************************************)
\* Array.from({ length: Math.min(CONCURRENCY, total) }, ...)
PoolSize(c, t) == ToLength(MathMin(c, Num(t)))

Workers == DOMAIN wpc

\* if (pointer < total)
CanClaim(p, t) == p < t

\* a cursor that is not advanced at the claim
AdvancePointerLate(p) == p

\* pointer += 1
AdvancePointer(p) == p + 1

\* the continuation of main() runs as soon as one worker has finished
AnyWorkerDone == \E w \in Workers : wpc[w] = "done"

\* await Promise.all(workers)
AllWorkersDone == \A w \in Workers : wpc[w] = "done"

\* the sub-requests of fetchPokemonDetail in the order of their await
SubFetches == <<"base", "species", "evolution", "locations">>

Rank(k) == CHOOSE r \in 1..4 : SubFetches[r] = k

\* species and location requests issued together once the base request
\* has resolved
NextRequestsParallel(k, hasEvolution, hasLocations) ==
    CASE k = "base" -> {"species", "locations"}
      [] k = "species" -> IF hasEvolution THEN {"evolution"} ELSE {}
      [] OTHER -> {}

\* The request fetchPokemonDetail issues once request k has resolved: the
\* species request follows the base request; fetchEvolutionChain and
\* fetchLocations return [] without a request when their url is missing.
NextRequests(k, hasEvolution, hasLocations) ==
    CASE k = "base" -> {"species"}
      [] k = "species" -> IF hasEvolution THEN {"evolution"}
                          ELSE IF hasLocations THEN {"locations"} ELSE {}
      [] k = "evolution" -> IF hasLocations THEN {"locations"} ELSE {}
      [] OTHER -> {}

\* a retry after every failure
RetryAlways(a) == TRUE

\* a failure in the outer try is retried, one in the inner try is not
RetryAllowed(a) == a = 1

\* no sleep after an item that failed twice
ThrottleOnSuccessOnly(outcome) == IF outcome = "fail" THEN 0 ELSE THROTTLE_MS

\* await sleep(100) closes the iteration whatever the outcome was
ThrottleAfter(outcome) == THROTTLE_MS

\* a catch handler that logs and lets the process end normally
MainCatchLogOnly == [mainPc |-> "exited", exitCode |-> 0]

\* main().catch: console.error, process.exit(1)
MainCatch == [mainPc |-> "exited", exitCode |-> 1]

(***************************************************************************)
(* The top of the worker loop, up to the first await: claim the index      *)
(* under the cursor and issue the base request, or leave the loop.         *)
(* s holds the variables the step touches, t is total.                     *)
(***************************************************************************)
LoopTop(s, w, t) ==
    IF CanClaim(s.pointer, t)
    THEN LET i == s.pointer
         IN [s EXCEPT !.pointer = AdvancePointer(s.pointer),
                      !.claimCount[i] = @ + 1,
                      !.started[i] = @ + 1,
                      !.currentIndex[w] = i,
                      !.attemptNo[w] = 1,
                      !.inflight[w] = {"base"},
                      !.issued[w] = <<"base">>,
                      !.timer[w] = 0,
                      !.wpc[w] = "fetch"]
    ELSE [s EXCEPT !.wpc[w] = "done", !.timer[w] = 0, !.inflight[w] = {},
                   !.currentIndex[w] = 0, !.attemptNo[w] = 0]

\* worker(1), ..., worker(n) called one after the other by Array.from
RECURSIVE StartWorkers(_, _, _)
StartWorkers(s, n, t) ==
    IF n = 0 THEN s ELSE LoopTop(StartWorkers(s, n - 1, t), n, t)

Touched ==
    [pointer |-> pointer, claimCount |-> claimCount, started |-> started,
     currentIndex |-> currentIndex, attemptNo |-> attemptNo,
     inflight |-> inflight, issued |-> issued, timer |-> timer, wpc |-> wpc]

Install(s) ==
    /\ pointer' = s.pointer
    /\ claimCount' = s.claimCount
    /\ started' = s.started
    /\ currentIndex' = s.currentIndex
    /\ attemptNo' = s.attemptNo
    /\ inflight' = s.inflight
    /\ issued' = s.issued
    /\ timer' = s.timer
    /\ wpc' = s.wpc

(***************************************************************************)
(* fetchEvolutionChain(url)                                                *)
(***************************************************************************)
\* largest number of nodes of an evolution tree
MaxNodes == 4

\* the id of an output node: null or a number
NullId == [null |-> TRUE, val |-> 0]
IdOf(n) == [null |-> FALSE, val |-> n]

\* a species reference of a node: missing, or a name and a url
NoSpecies == [present |-> FALSE, name |-> "", url |-> <<>>]
Species(name, url) == [present |-> TRUE, name |-> name, url |-> url]

SpeciesSamples ==
    { NoSpecies,
      Species("bulbasaur", <<"/", "1", "/">>),
      Species("ivysaur", <<"s", "/", "1", "2">>),
      Species("missingno", <<"/", "x", "/">>) }

\* a node of the response; the chain itself can be missing
EvoNode(species, kids) == [absent |-> FALSE, species |-> species, evolves_to |-> kids]
AbsentNode == [absent |-> TRUE, species |-> NoSpecies, evolves_to |-> <<>>]

\* the trees of exactly n nodes and the lists of trees of n nodes in all
RECURSIVE TreesOfSize(_)
RECURSIVE ForestsOfSize(_)
TreesOfSize(n) ==
    {EvoNode(sp, kids) : sp \in SpeciesSamples, kids \in ForestsOfSize(n - 1)}
ForestsOfSize(n) ==
    IF n = 0 THEN {<<>>}
    ELSE UNION {{<<t>> \o f : t \in TreesOfSize(j), f \in ForestsOfSize(n - j)}
                  : j \in 1..n}

EvoInputs ==
    {[hasUrl |-> FALSE, chain |-> AbsentNode], [hasUrl |-> TRUE, chain |-> AbsentNode]}
      \cup {[hasUrl |-> TRUE, chain |-> t] : t \in UNION {TreesOfSize(n) : n \in 1..MaxNodes}}

RECURSIVE TrailingDigits(_)
TrailingDigits(s) ==
    IF s # <<>> /\ IsDigit(s[Len(s)])
    THEN TrailingDigits(SubSeq(s, 1, Len(s) - 1)) \o <<s[Len(s)]>>
    ELSE <<>>

\* speciesUrl?.match(/\/(\d+)\/?$/), then Number(idMatch[1]): a slash, the
\* digits that end the url, an optional closing slash
SpeciesId(species) ==
    LET url == species.url
        body == IF url # <<>> /\ url[Len(url)] = "/"
                THEN SubSeq(url, 1, Len(url) - 1) ELSE url
        ds == TrailingDigits(body)
    IN  IF /\ species.present
           /\ ds # <<>>
           /\ Len(body) > Len(ds)
           /\ body[Len(body) - Len(ds)] = "/"
        THEN IdOf(DecimalValue(ds, 0))
        ELSE NullId

\* a child is visited with its parent's stage held constant
ChildStageFlat(stage) == stage

\* traverse(evolution, stage + 1)
ChildStage(stage) == stage + 1

\* traverse(node, stage) and its loop over node.evolves_to, as the entries
\* they push on chain
RECURSIVE Traverse(_, _)
RECURSIVE TraverseEach(_, _)
Traverse(node, stage) ==
    IF node.absent THEN <<>>
    ELSE <<[id |-> SpeciesId(node.species),
            name |-> node.species.name,
            stage |-> stage]>>
         \o TraverseEach(node.evolves_to, ChildStage(stage))
TraverseEach(kids, stage) ==
    IF kids = <<>> THEN <<>>
    ELSE Traverse(Head(kids), stage) \o TraverseEach(Tail(kids), stage)

EvoIdle ==
    /\ evoInput = [hasUrl |-> FALSE, chain |-> AbsentNode]
    /\ evoChain = <<>>
    /\ evoPc = "idle"

\* if (!url) return []; otherwise traverse(data.chain) from stage 0
FetchEvolutionChain ==
    /\ evoPc = "call"
    /\ evoChain' = IF evoInput.hasUrl THEN Traverse(evoInput.chain, 0) ELSE <<>>
    /\ evoPc' = "returned"
    /\ UNCHANGED <<evoInput, locVars, moveVars, queryVars, suggestVars,
                   explorerVars, ingestVars>>

(***************************************************************************)
(* fetchLocations(url)                                                     *)
(***************************************************************************)
\* length of the encounter lists of which every one is explored
MaxShortList == 3
\* how far the long encounter lists explored go beyond the cap
MaxBeyondCap == 3

\* if (locations.size >= 12) break
LOCATION_CAP == 12

\* an encounter entry: its location_area?.name, if any
NoArea == [hasName |-> FALSE, name |-> <<>>]
Area(name) == [hasName |-> TRUE, name |-> name]

AreaSamples ==
    { NoArea, Area(<<>>), Area(<<"a", "-", "b">>), Area(<<"a", " ", "b">>),
      Area(<<"c">>) }

RECURSIVE ListsUpTo(_)
ListsUpTo(n) ==
    IF n = 0 THEN {<<>>}
    ELSE ListsUpTo(n - 1)
           \cup {Append(l, e) : l \in {m \in ListsUpTo(n - 1) : Len(m) = n - 1},
                                e \in AreaSamples}

Letters == <<"a", "b", "c", "d", "e", "f", "g", "h", "i", "j", "k", "l", "m",
             "n", "o", "p", "q", "r", "s", "t">>

\* the j-th area name, and the same name spelt with a space
AreaName(j) == <<"r", "-", Letters[j]>>
AreaNameSpaced(j) == <<"r", " ", Letters[j]>>

\* n entries with distinct names, ascending or descending, except that the
\* entry at dupAt repeats the first name spelt with a space and the entry
\* at gapAt has no area
LongList(n, descending, dupAt, gapAt) ==
    [k \in 1..n |->
        LET j == IF descending THEN n + 1 - k ELSE k
            first == IF descending THEN n ELSE 1
        IN  IF k = gapAt THEN NoArea
            ELSE IF k = dupAt /\ k > 1 THEN Area(AreaNameSpaced(first))
            ELSE Area(AreaName(j))]

LongLists ==
    {LongList(n, d, dupAt, gapAt) :
        n \in (LOCATION_CAP - 1)..(LOCATION_CAP + MaxBeyondCap), d \in BOOLEAN,
        dupAt \in {0, 2, LOCATION_CAP, LOCATION_CAP + 1},
        gapAt \in {0, 1, LOCATION_CAP - 1, LOCATION_CAP + 1}}

LocInputs ==
    {[hasUrl |-> FALSE, data |-> <<>>]}
      \cup {[hasUrl |-> TRUE, data |-> l] : l \in ListsUpTo(MaxShortList) \cup LongLists}

\* name.replace(/-/g, ' ')
RECURSIVE formatName(_)
formatName(name) ==
    IF name = <<>> THEN <<>>
    ELSE <<IF Head(name) = "-" THEN " " ELSE Head(name)>> \o formatName(Tail(name))

\* Set.prototype.add on a set kept in insertion order
SetAdd(set, x) ==
    IF \E k \in DOMAIN set : set[k] = x THEN set ELSE Append(set, x)

\* the break is taken one entry late
CapExceeded(size) == size > LOCATION_CAP

\* locations.size >= 12
CapReached(size) == size >= LOCATION_CAP

\* the for loop from entry i on: the set built and the number of entries
\* read when the loop is left
RECURSIVE LocationLoop(_, _, _)
LocationLoop(data, i, locations) ==
    IF i > Len(data) THEN [locations |-> locations, examined |-> Len(data)]
    ELSE LET entry == data[i]
             added == IF entry.hasName /\ entry.name # <<>>
                      THEN SetAdd(locations, formatName(entry.name))
                      ELSE locations
         IN  IF CapReached(Len(added))
             THEN [locations |-> added, examined |-> i]
             ELSE LocationLoop(data, i + 1, added)

LocIdle ==
    /\ locInput = [hasUrl |-> FALSE, data |-> <<>>]
    /\ locResult = [locations |-> <<>>, examined |-> 0]
    /\ locPc = "idle"

\* if (!url) return []; otherwise the loop over the response
FetchLocations ==
    /\ locPc = "call"
    /\ locResult' = IF locInput.hasUrl
                    THEN LocationLoop(locInput.data, 1, <<>>)
                    ELSE [locations |-> <<>>, examined |-> 0]
    /\ locPc' = "returned"
    /\ UNCHANGED <<locInput, evoVars, moveVars, queryVars, suggestVars,
                   explorerVars, ingestVars>>

(***************************************************************************)
(* extractMoves(moves)                                                     *)
(***************************************************************************)
\* length of the move lists of which every one is explored
MaxShortMoves == 3
\* how far the long move lists explored go beyond each cap
MaxMovesBeyondCap == 1

\* sortedLevelUp.slice(0, 30)
LEVEL_UP_CAP == 30
\* .slice(0, 20)
OTHER_CAP == 20

\* a level: missing (null or undefined) or a number
NoLevel == [null |-> TRUE, val |-> 0]
Level(n) == [null |-> FALSE, val |-> n]

\* an entry of version_group_details: move_learn_method?.name and
\* level_learned_at
Detail(method, level) == [method |-> method, level |-> level]

\* an entry of moves: move?.name (<<>> when missing or empty) and its
\* version_group_details
Move(name, details) == [name |-> name, details |-> details]

MoveSamples ==
    { Move(<<"a", 0>>, <<Detail("machine", Level(0))>>),
      Move(<<"b", 0>>, <<Detail("level-up", Level(5))>>),
      Move(<<"c", 0>>, <<Detail("machine", Level(0)), Detail("level-up", Level(1))>>),
      Move(<<>>, <<Detail("level-up", Level(3))>>),
      Move(<<"d", 0>>, <<>>),
      Move(<<"e", 0>>, <<Detail("tutor", Level(0)), Detail("level-up", NoLevel)>>) }

RECURSIVE MoveListsUpTo(_)
MoveListsUpTo(n) ==
    IF n = 0 THEN {<<>>}
    ELSE MoveListsUpTo(n - 1)
           \cup {Append(l, e) : l \in {m \in MoveListsUpTo(n - 1) : Len(m) = n - 1},
                                e \in MoveSamples}

\* the j-th level-up move of a long list, learnt at level lvl, and its j-th
\* other move
LevelUpMove(j, lvl) ==
    Move(<<"l", j>>,
         IF j % 2 = 0
         THEN <<Detail("machine", Level(0)), Detail("level-up", Level(lvl))>>
         ELSE <<Detail("level-up", Level(lvl))>>)
OtherMove(j) == Move(<<"o", j>>, <<Detail("machine", Level(0))>>)

\* nl level-up moves and no other moves: one kind after the other or
\* alternating, the levels ascending, descending or repeating
LongMoves(nl, no, order, levels) ==
    LET lvl(j) == CASE levels = "ascending" -> j
                    [] levels = "descending" -> nl + 1 - j
                    [] OTHER -> j % 3
        both == 2 * Min(nl, no)
    IN  [k \in 1..(nl + no) |->
            CASE order = "levelUpFirst" ->
                    IF k <= nl THEN LevelUpMove(k, lvl(k)) ELSE OtherMove(k - nl)
              [] order = "otherFirst" ->
                    IF k <= no THEN OtherMove(k) ELSE LevelUpMove(k - no, lvl(k - no))
              [] OTHER ->
                    IF k <= both
                    THEN IF k % 2 = 1 THEN LevelUpMove((k + 1) \div 2, lvl((k + 1) \div 2))
                         ELSE OtherMove(k \div 2)
                    ELSE IF nl > no THEN LevelUpMove(k - no, lvl(k - no))
                         ELSE OtherMove(k - nl)]

LongMoveLists ==
    {LongMoves(nl, no, order, levels) :
        nl \in (LEVEL_UP_CAP - 1)..(LEVEL_UP_CAP + MaxMovesBeyondCap),
        no \in (OTHER_CAP - 1)..(OTHER_CAP + MaxMovesBeyondCap),
        order \in {"levelUpFirst", "otherFirst", "alternating"},
        levels \in {"ascending", "descending", "repeating"}}

MoveInputs ==
    {[isArray |-> FALSE, moves |-> <<>>]}
      \cup {[isArray |-> TRUE, moves |-> l] : l \in MoveListsUpTo(MaxShortMoves) \cup LongMoveLists}

\* version_group_details?.find(detail => detail.move_learn_method?.name === 'level-up')
FindLevelUp(details) ==
    IF \E k \in DOMAIN details : details[k].method = "level-up"
    THEN LET first == CHOOSE k \in DOMAIN details :
                        /\ details[k].method = "level-up"
                        /\ \A j \in 1..(k - 1) : details[j].method # "level-up"
         IN [found |-> TRUE, detail |-> details[first]]
    ELSE [found |-> FALSE, detail |-> Detail("", NoLevel)]

\* the callback of moves.map
MapMove(move) ==
    LET hit == FindLevelUp(move.details)
    IN  [name |-> move.name,
         method |-> IF hit.found THEN hit.detail.method
                    ELSE IF move.details # <<>> THEN move.details[1].method
                    ELSE "unknown",
         levelLearnedAt |-> IF hit.found THEN hit.detail.level ELSE NoLevel]

\* moves.map(...).filter((move) => move.name)
NamedMoves(moves) ==
    SelectSeq([k \in DOMAIN moves |-> MapMove(moves[k])], LAMBDA m : m.name # <<>>)

\* insertion of x behind every move that does not compare greater
RECURSIVE InsertByLevel(_, _)
InsertByLevel(s, x) ==
    IF s = <<>> THEN <<x>>
    ELSE IF Head(s).levelLearnedAt.val - x.levelLearnedAt.val > 0 THEN <<x>> \o s
    ELSE <<Head(s)>> \o InsertByLevel(Tail(s), x)

\* .sort((a, b) => (a.levelLearnedAt ?? 0) - (b.levelLearnedAt ?? 0)): a
\* stable sort by level
RECURSIVE SortByLevel(_)
SortByLevel(s) ==
    IF s = <<>> THEN <<>>
    ELSE InsertByLevel(SortByLevel(SubSeq(s, 1, Len(s) - 1)), s[Len(s)])

\* s.slice(0, n)
Slice(s, n) == SubSeq(s, 1, Min(n, Len(s)))

\* the cut taken before the sort
LevelUpCutFirst(named) ==
    SortByLevel(Slice(SelectSeq(named, LAMBDA m : ~m.levelLearnedAt.null), LEVEL_UP_CAP))

\* sortedLevelUp.slice(0, 30)
LevelUpPart(named) ==
    Slice(SortByLevel(SelectSeq(named, LAMBDA m : ~m.levelLearnedAt.null)), LEVEL_UP_CAP)

\* otherMoves
OtherPart(named) ==
    Slice(SelectSeq(named, LAMBDA m : m.levelLearnedAt.null), OTHER_CAP)

MovesIdle ==
    /\ moveInput = [isArray |-> FALSE, moves |-> <<>>]
    /\ moveResult = <<>>
    /\ movePc = "idle"

\* if (!Array.isArray(moves)) return []; otherwise the two parts, level-up
\* moves first
ExtractMoves ==
    /\ movePc = "call"
    /\ moveResult' = IF moveInput.isArray
                     THEN LET named == NamedMoves(moveInput.moves)
                          IN  LevelUpPart(named) \o OtherPart(named)
                     ELSE <<>>
    /\ movePc' = "returned"
    /\ UNCHANGED <<moveInput, evoVars, locVars, queryVars, suggestVars,
                   explorerVars, ingestVars>>

(***************************************************************************)
(* The query engine: filterAndSortPokemon and getAutocompleteSuggestions,  *)
(* over strings given as sequences of characters.                          *)
(***************************************************************************)
\* largest number of records of a collection
MaxCollection == 3

LowerCase == <<"a", "b", "c", "d", "e", "f", "g", "h", "i", "j", "k", "l", "m",
               "n", "o", "p", "q", "r", "s", "t", "u", "v", "w", "x", "y", "z">>
UpperCase == <<"A", "B", "C", "D", "E", "F", "G", "H", "I", "J", "K", "L", "M",
               "N", "O", "P", "Q", "R", "S", "T", "U", "V", "W", "X", "Y", "Z">>

\* toLowerCase()
ToLowerChar(c) ==
    IF \E k \in 1..26 : UpperCase[k] = c
    THEN LowerCase[CHOOSE k \in 1..26 : UpperCase[k] = c]
    ELSE c
ToLower(s) == [k \in DOMAIN s |-> ToLowerChar(s[k])]

\* trim()
RECURSIVE TrimStart(_)
TrimStart(s) == IF s # <<>> /\ Head(s) = " " THEN TrimStart(Tail(s)) ELSE s
RECURSIVE TrimEnd(_)
TrimEnd(s) ==
    IF s # <<>> /\ s[Len(s)] = " " THEN TrimEnd(SubSeq(s, 1, Len(s) - 1)) ELSE s
Trim(s) == TrimEnd(TrimStart(s))

\* hay.includes(needle)
Includes(hay, needle) ==
    \E i \in 0..(Len(hay) - Len(needle)) : SubSeq(hay, i + 1, i + Len(needle)) = needle

\* position of a character in the collation order: letters first
Collation(c) ==
    IF \E k \in 1..26 : LowerCase[k] = c
    THEN CHOOSE k \in 1..26 : LowerCase[k] = c
    ELSE 0

\* a.localeCompare(b) on case-folded names: negative, zero or positive
RECURSIVE CompareText(_, _)
CompareText(a, b) ==
    IF a = <<>> /\ b = <<>> THEN 0
    ELSE IF a = <<>> THEN 0 - 1
    ELSE IF b = <<>> THEN 1
    ELSE IF Collation(Head(a)) # Collation(Head(b))
         THEN Collation(Head(a)) - Collation(Head(b))
    ELSE CompareText(Tail(a), Tail(b))

Fire == <<"f", "i", "r", "e">>
Flying == <<"f", "l", "y", "i", "n", "g">>
Water == <<"w", "a", "t", "e", "r">>
Electric == <<"e", "l", "e", "c", "t", "r", "i", "c">>
Psychic == <<"p", "s", "y", "c", "h", "i", "c">>

Entry(id, name, types, abilities, stats, generation, legendary, mythical) ==
    [id |-> id, name |-> name, types |-> types, abilities |-> abilities,
     stats |-> stats, generation |-> generation,
     isLegendary |-> legendary, isMythical |-> mythical]

\* the records collections are made of, in ascending order of identifier
Pokedex ==
    << Entry(4, <<"c", "h", "a", "r", "m", "a", "n", "d", "e", "r">>, <<Fire>>,
             <<<<"b", "l", "a", "z", "e">>>>, <<100, 200>>, "generation-i", FALSE, FALSE),
       Entry(6, <<"c", "h", "a", "r", "i", "z", "a", "r", "d">>, <<Fire, Flying>>,
             <<<<"b", "l", "a", "z", "e">>>>, <<300, 200>>, "generation-i", FALSE, FALSE),
       Entry(7, <<"s", "q", "u", "i", "r", "t", "l", "e">>, <<Water>>,
             <<<<"t", "o", "r", "r", "e", "n", "t">>>>, <<400>>, "generation-i", FALSE, FALSE),
       Entry(25, <<"p", "i", "k", "a", "c", "h", "u">>, <<Electric>>,
             <<<<"s", "t", "a", "t", "i", "c">>>>, <<150, 150>>, "generation-i", FALSE, FALSE),
       Entry(146, <<"m", "o", "l", "t", "r", "e", "s">>, <<Fire, Flying>>,
             <<<<"p", "r", "e", "s", "s", "u", "r", "e">>>>, <<250, 250>>, "generation-i", TRUE, FALSE),
       Entry(151, <<"m", "e", "w">>, <<Psychic>>,
             <<<<"s", "y", "n", "c">>>>, <<500>>, "generation-i", FALSE, TRUE),
       Entry(172, <<"p", "i", "c", "h", "u">>, <<Electric>>,
             <<<<"s", "t", "a", "t", "i", "c">>>>, <<100, 100, 100>>, "generation-ii", FALSE, FALSE),
       Entry(173, <<"p", "i", "c", "h", "u">>, <<Electric, Flying>>,
             <<>>, <<>>, "none", TRUE, TRUE) >>

\* the collections: the records of up to MaxCollection places of the
\* Pokedex, in its order
RECURSIVE Pick(_, _)
Pick(places, from) ==
    IF from > Len(Pokedex) THEN <<>>
    ELSE (IF from \in places THEN <<Pokedex[from]>> ELSE <<>>) \o Pick(places, from + 1)

Collections ==
    {Pick(places, 1) :
        places \in {ps \in SUBSET DOMAIN Pokedex : Cardinality(ps) <= MaxCollection}}

SearchTerms ==
    { <<>>, <<" ", " ">>, <<"c", "h", "a", "r">>, <<" ", "F", "i", "r", "e">>,
      <<"b", "l", "a", "z", "e">>, <<"p", "i">> }

TypeSelections ==
    { <<>>, <<Fire>>, <<Flying>>, <<Water>>, <<Fire, Flying>>, <<Flying, Fire>>,
      <<Fire, Water>> }

Generations == {"all", "generation-i", "generation-ii"}

LegendaryFilters == {"all", "legendary", "mythical", "non-legendary"}

SortOptions == {"name-asc", "id-asc", "id-desc", "stat-total-desc"}

FilterStates ==
    [searchTerm : SearchTerms, selectedTypes : TypeSelections,
     generation : Generations, legendary : LegendaryFilters, sortBy : SortOptions]

\* sum of every entry of the stat list
RECURSIVE getBaseStatTotal(_)
getBaseStatTotal(stats) ==
    IF stats = <<>> THEN 0 ELSE Head(stats) + getBaseStatTotal(Tail(stats))

\* the search clause: the trimmed, case-folded term is empty or part of
\* the name, of a type name or of an ability name
MatchesSearch(r, searchTerm) ==
    LET term == ToLower(Trim(searchTerm))
    IN  \/ term = <<>>
        \/ Includes(ToLower(r.name), term)
        \/ \E k \in DOMAIN r.types : Includes(ToLower(r.types[k]), term)
        \/ \E k \in DOMAIN r.abilities : Includes(ToLower(r.abilities[k]), term)

\* a type clause that accepts a record with any of the selected types
MatchesAnyType(r, selectedTypes) ==
    \/ selectedTypes = <<>>
    \/ \E k \in DOMAIN selectedTypes : \E j \in DOMAIN r.types : r.types[j] = selectedTypes[k]

\* the type clause: the record has all the selected types
MatchesTypes(r, selectedTypes) ==
    \A k \in DOMAIN selectedTypes : \E j \in DOMAIN r.types : r.types[j] = selectedTypes[k]

\* the generation clause
MatchesGeneration(r, generation) ==
    generation = "all" \/ r.generation = generation

\* the legendary clause
MatchesLegendary(r, legendary) ==
    CASE legendary = "legendary" -> r.isLegendary
      [] legendary = "mythical" -> r.isMythical
      [] legendary = "non-legendary" -> ~r.isLegendary /\ ~r.isMythical
      [] OTHER -> TRUE

\* the filtering predicate: all clauses
MatchesFilters(r, f) ==
    /\ MatchesSearch(r, f.searchTerm)
    /\ MatchesTypes(r, f.selectedTypes)
    /\ MatchesGeneration(r, f.generation)
    /\ MatchesLegendary(r, f.legendary)

\* a stat-total ordering that puts the lowest total first
CompareLowTotalFirst(a, b, sortBy) ==
    CASE sortBy = "id-asc" -> a.id - b.id
      [] sortBy = "id-desc" -> b.id - a.id
      [] sortBy = "name-asc" -> CompareText(ToLower(a.name), ToLower(b.name))
      [] OTHER -> getBaseStatTotal(a.stats) - getBaseStatTotal(b.stats)

\* the ordering of a sort option: negative when a goes first
CompareKeys(a, b, sortBy) ==
    CASE sortBy = "id-asc" -> a.id - b.id
      [] sortBy = "id-desc" -> b.id - a.id
      [] sortBy = "name-asc" -> CompareText(ToLower(a.name), ToLower(b.name))
      [] OTHER -> getBaseStatTotal(b.stats) - getBaseStatTotal(a.stats)

\* ties broken by ascending identifier
CompareEntries(a, b, sortBy) ==
    IF CompareKeys(a, b, sortBy) # 0 THEN CompareKeys(a, b, sortBy) ELSE a.id - b.id

RECURSIVE InsertEntry(_, _, _)
InsertEntry(s, x, sortBy) ==
    IF s = <<>> THEN <<x>>
    ELSE IF CompareEntries(Head(s), x, sortBy) > 0 THEN <<x>> \o s
    ELSE <<Head(s)>> \o InsertEntry(Tail(s), x, sortBy)

RECURSIVE SortEntries(_, _)
SortEntries(s, sortBy) ==
    IF s = <<>> THEN <<>>
    ELSE InsertEntry(SortEntries(SubSeq(s, 1, Len(s) - 1), sortBy), s[Len(s)], sortBy)

\* filterAndSortPokemon(collection, filters): a new sequence
filterAndSortPokemon(collection, f) ==
    SortEntries(SelectSeq(collection, LAMBDA r : MatchesFilters(r, f)), f.sortBy)

\* a query is blank only when it is the empty string
IsEmptyString(query) == query = <<>>

\* the empty or whitespace-only query
IsBlank(query) == Trim(query) = <<>>

\* getAutocompleteSuggestions(collection, query, max): the first max
\* records whose name contains the trimmed, case-folded query
getAutocompleteSuggestions(collection, query, max) ==
    IF IsBlank(query) THEN <<>>
    ELSE Slice(SelectSeq(collection,
                         LAMBDA r : Includes(ToLower(r.name), ToLower(Trim(query)))),
               max)

QueryIdle ==
    /\ queryInput = [collection |-> <<>>, filters |-> [searchTerm |-> <<>>,
                        selectedTypes |-> <<>>, generation |-> "all",
                        legendary |-> "all", sortBy |-> "id-asc"]]
    /\ queryResult = <<>>
    /\ queryPc = "idle"

\* a call of filterAndSortPokemon
FilterAndSort ==
    /\ queryPc = "call"
    /\ queryResult' = filterAndSortPokemon(queryInput.collection, queryInput.filters)
    /\ queryPc' = "returned"
    /\ UNCHANGED <<queryInput, suggestVars, evoVars, locVars, moveVars,
                   explorerVars, ingestVars>>

SuggestQueries ==
    { <<>>, <<" ">>, <<" ", " ">>, <<"p", "i">>, <<" ", "P", "I", " ">>,
      <<"c", "h", "u">>, <<"f", "i", "r", "e">> }

SuggestLimits == {0, 1, 2, 8}

SuggestIdle ==
    /\ suggestInput = [collection |-> <<>>, query |-> <<>>, max |-> 0]
    /\ suggestResult = <<>>
    /\ suggestPc = "idle"

\* a call of getAutocompleteSuggestions
Autocomplete ==
    /\ suggestPc = "call"
    /\ suggestResult' = getAutocompleteSuggestions(suggestInput.collection,
                                                   suggestInput.query, suggestInput.max)
    /\ suggestPc' = "returned"
    /\ UNCHANGED <<suggestInput, queryVars, evoVars, locVars, moveVars,
                   explorerVars, ingestVars>>

(***************************************************************************)
(* PokemonExplorer: the state of the component and its event handlers.     *)
(* Each handler runs to completion and the component renders again before  *)
(* the next event is handled.                                              *)
(***************************************************************************)
\* callbacks scheduled by blur and not yet run, of which every number up to
\* this one is explored
MaxTimers == 1

\* const ALL_POKEMON = getAllPokemon(): pikachu, mew and pichu
ALL_POKEMON == Pick({4, 6, 7}, 1)

\* const ALL_TYPES = getAllTypes(): the types of the records
ALL_TYPES == UNION {{r.types[k] : k \in DOMAIN r.types} :
                        r \in {ALL_POKEMON[k] : k \in DOMAIN ALL_POKEMON}}

\* const ALL_GENERATIONS = getAllGenerations(): the generations of the records
ALL_GENERATIONS == {ALL_POKEMON[k].generation : k \in DOMAIN ALL_POKEMON}

DEFAULT_FILTERS ==
    [searchTerm |-> <<>>, selectedTypes |-> <<>>, generation |-> "all",
     legendary |-> "all", sortBy |-> "id-asc"]

SORT_LABELS == {"id-asc", "id-desc", "name-asc", "stat-total-desc"}

LEGENDARY_OPTIONS == {"all", "legendary", "mythical", "non-legendary"}

\* the length limit passed to getAutocompleteSuggestions
MAX_SUGGESTIONS == 8

\* delay of the callback scheduled by blur
BLUR_DELAY_MS == 120

\* highlightedIndex: null or a number
NullIndex == [isNull |-> TRUE, index |-> 0]
Index(n) == [isNull |-> FALSE, index |-> n]

\* the values typed into the search input
TypedValues == { <<>>, <<" ">>, <<"p", "i">>, <<"p", "i", "k">> }

\* the keys pressed in the search input
Keys == {"ArrowDown", "ArrowUp", "Enter", "Escape", "Tab"}

\* useMemo(() => getAutocompleteSuggestions(ALL_POKEMON, filters.searchTerm, 8))
suggestions == getAutocompleteSuggestions(ALL_POKEMON, filters.searchTerm, MAX_SUGGESTIONS)

shouldShowSuggestions == autocompleteOpen /\ Len(suggestions) > 0

\* Boolean(value.trim()), value.trim().length > 0
HasText(value) == Len(Trim(value)) > 0

\* the state before any event: the initial values given to useState
Mounted ==
    /\ filters = DEFAULT_FILTERS
    /\ autocompleteOpen = FALSE
    /\ highlightedIndex = NullIndex
    /\ focused = FALSE
    /\ blurTimers = 0
    /\ lastEvent = "mount"

outsideExplorer == <<ingestVars, evoVars, locVars, moveVars, queryVars, suggestVars>>

\* (prev) => ({ ...prev, searchTerm: value })
WithSearchTerm(prev, value) == [prev EXCEPT !.searchTerm = value]

\* the updater of toggleType: the type is removed if selected, appended if not
ToggledTypes(prev, type) ==
    LET exists == \E k \in DOMAIN prev.selectedTypes : prev.selectedTypes[k] = type
    IN  [prev EXCEPT !.selectedTypes =
            IF exists THEN SelectSeq(prev.selectedTypes, LAMBDA item : item # type)
            ELSE Append(prev.selectedTypes, type)]

\* (prev) => ({ ...prev, generation: value })
WithGeneration(prev, value) == [prev EXCEPT !.generation = value]

\* (prev) => ({ ...prev, legendary: value })
WithLegendary(prev, value) == [prev EXCEPT !.legendary = value]

\* a sort change that starts from the default filters
WithSortByOnly(prev, value) == [DEFAULT_FILTERS EXCEPT !.sortBy = value]

\* (prev) => ({ ...prev, sortBy: value })
WithSortBy(prev, value) == [prev EXCEPT !.sortBy = value]

\* prev === null ? 0 : (prev + 1) % suggestions.length
HighlightBelow(prev, length) ==
    IF prev.isNull THEN Index(0) ELSE Index((prev.index + 1) % length)

\* prev === null || prev <= 0 ? suggestions.length - 1 : prev - 1
HighlightAbove(prev, length) ==
    IF prev.isNull \/ prev.index <= 0 THEN Index(length - 1) ELSE Index(prev.index - 1)

\* the state changes of handleSuggestionSelect(pokemon)
SuggestionSelected(pokemon) ==
    /\ filters' = WithSearchTerm(filters, pokemon.name)
    /\ autocompleteOpen' = FALSE
    /\ highlightedIndex' = NullIndex

\* onChange of the search input: handleSearchChange(event.target.value)
HandleSearchChange(value) ==
    /\ focused
    /\ value # filters.searchTerm
    /\ filters' = WithSearchTerm(filters, value)
    /\ autocompleteOpen' = HasText(value)
    /\ lastEvent' = "change"
    /\ UNCHANGED <<highlightedIndex, focused, blurTimers, outsideExplorer>>

\* onClick of a suggestion of the list shown; its onMouseDown keeps the
\* focus where it is
HandleSuggestionSelect(pokemon) ==
    /\ shouldShowSuggestions
    /\ \E k \in DOMAIN suggestions : suggestions[k] = pokemon
    /\ SuggestionSelected(pokemon)
    /\ lastEvent' = "select"
    /\ UNCHANGED <<focused, blurTimers, outsideExplorer>>

\* onChange of a type checkbox
ToggleType(type) ==
    /\ filters' = ToggledTypes(filters, type)
    /\ lastEvent' = "toggleType"
    /\ UNCHANGED <<autocompleteOpen, highlightedIndex, focused, blurTimers,
                   outsideExplorer>>

\* onChange of the generation select
SelectGeneration(value) ==
    /\ value # filters.generation
    /\ filters' = WithGeneration(filters, value)
    /\ lastEvent' = "generation"
    /\ UNCHANGED <<autocompleteOpen, highlightedIndex, focused, blurTimers,
                   outsideExplorer>>

\* onChange of a legendary radio button
HandleLegendaryChange(value) ==
    /\ value # filters.legendary
    /\ filters' = WithLegendary(filters, value)
    /\ lastEvent' = "legendary"
    /\ UNCHANGED <<autocompleteOpen, highlightedIndex, focused, blurTimers,
                   outsideExplorer>>

\* onChange of the sort select
HandleSortChange(value) ==
    /\ value # filters.sortBy
    /\ filters' = WithSortBy(filters, value)
    /\ lastEvent' = "sort"
    /\ UNCHANGED <<autocompleteOpen, highlightedIndex, focused, blurTimers,
                   outsideExplorer>>

\* onClick of the clear and reset buttons
ClearFilters ==
    /\ filters' = DEFAULT_FILTERS
    /\ autocompleteOpen' = FALSE
    /\ highlightedIndex' = NullIndex
    /\ lastEvent' = "clear"
    /\ UNCHANGED <<focused, blurTimers, outsideExplorer>>

\* onKeyDown of the search input
HandleKeyDown(key) ==
    LET opened == IF ~autocompleteOpen /\ key \in {"ArrowDown", "ArrowUp"}
                  THEN TRUE ELSE autocompleteOpen
        length == Len(suggestions)
    IN  /\ focused
        /\ lastEvent' = "keydown"
        /\ UNCHANGED <<focused, blurTimers, outsideExplorer>>
        /\ IF length = 0
           THEN /\ autocompleteOpen' = opened
                /\ UNCHANGED <<filters, highlightedIndex>>
           ELSE CASE key = "ArrowDown" ->
                       /\ highlightedIndex' = HighlightBelow(highlightedIndex, length)
                       /\ autocompleteOpen' = opened
                       /\ UNCHANGED filters
                  [] key = "ArrowUp" ->
                       /\ highlightedIndex' = HighlightAbove(highlightedIndex, length)
                       /\ autocompleteOpen' = opened
                       /\ UNCHANGED filters
                  [] key = "Enter" /\ ~highlightedIndex.isNull ->
                       \* selected = suggestions[highlightedIndex], undefined
                       \* past the end of the list
                       IF highlightedIndex.index + 1 \in DOMAIN suggestions
                       THEN SuggestionSelected(suggestions[highlightedIndex.index + 1])
                       ELSE UNCHANGED <<filters, autocompleteOpen, highlightedIndex>>
                  [] key = "Escape" ->
                       /\ autocompleteOpen' = FALSE
                       /\ highlightedIndex' = NullIndex
                       /\ UNCHANGED filters
                  [] OTHER ->
                       UNCHANGED <<filters, autocompleteOpen, highlightedIndex>>

\* onFocus of the search input
Focus ==
    /\ ~focused
    /\ focused' = TRUE
    /\ autocompleteOpen' = HasText(filters.searchTerm)
    /\ lastEvent' = "focus"
    /\ UNCHANGED <<filters, highlightedIndex, blurTimers, outsideExplorer>>

\* onBlur of the search input: the callback is scheduled and never cancelled
Blur ==
    /\ focused
    /\ blurTimers < MaxTimers
    /\ focused' = FALSE
    /\ blurTimers' = blurTimers + 1
    /\ lastEvent' = "blur"
    /\ UNCHANGED <<filters, autocompleteOpen, highlightedIndex, outsideExplorer>>

\* the callback scheduled by blur runs
BlurTimeout ==
    /\ blurTimers > 0
    /\ blurTimers' = blurTimers - 1
    /\ autocompleteOpen' = FALSE
    /\ highlightedIndex' = NullIndex
    /\ lastEvent' = "blurTimeout"
    /\ UNCHANGED <<filters, focused, outsideExplorer>>

(***************************************************************************)
(* Initial state: the module has been evaluated, main() has issued the     *)
(* index request and is suspended on it.                                   *)
(***************************************************************************)
\* The identifiers behind the index entries are distinct; the index lists
\* explored have them ascending, descending, or rotated by one place.
Ascending(n) == [k \in 1..n |-> k]
Descending(n) == [k \in 1..n |-> n + 1 - k]
Rotated(n) == [k \in 1..n |-> (k % n) + 1]

EntryLists == UNION {{Ascending(n), Descending(n), Rotated(n)} : n \in 0..MaxTotal}

MainStarted ==
    /\ mainPc = "awaitIndex"
    /\ exitCode = 0
    /\ entries = <<>>
    /\ total = 0
    /\ results = <<>>
    /\ pointer = 0
    /\ completed = 0
    /\ wpc = <<>>
    /\ currentIndex = <<>>
    /\ attemptNo = <<>>
    /\ inflight = <<>>
    /\ timer = <<>>
    /\ output = <<>>
    /\ writes = 0
    /\ claimCount = <<>>
    /\ started = <<>>
    /\ outcomes = <<>>
    /\ paused = <<>>
    /\ issued = <<>>
    /\ indexFailed = FALSE

Init ==
    /\ CONCURRENCY \in {ConcurrencyOf(env) : env \in ConcurrencyEnvs}
    /\ MainStarted
    /\ EvoIdle
    /\ LocIdle
    /\ MovesIdle
    /\ QueryIdle
    /\ SuggestIdle
    /\ Mounted

(***************************************************************************)
(* main()                                                                  *)
(***************************************************************************)
\* fetchJson of the index rejects: main() rejects and the catch handler runs
IndexFetchFails ==
    /\ mainPc = "awaitIndex"
    /\ mainPc' = MainCatch.mainPc
    /\ exitCode' = MainCatch.exitCode
    /\ indexFailed' = TRUE
    /\ UNCHANGED helperVars
    /\ UNCHANGED <<CONCURRENCY, entries, total, results, pointer, completed,
                   wpc, currentIndex, attemptNo, inflight, timer, output,
                   writes, claimCount, started, outcomes, paused, issued>>

\* fetchJson of the index resolves: main() sets up the shared state and
\* calls every worker, each running to its first await
IndexFetchResolves ==
    /\ mainPc = "awaitIndex"
    /\ \E es \in EntryLists :
        LET t == Len(es)
            n == PoolSize(CONCURRENCY, t)
            fresh == [pointer |-> 0,
                      claimCount |-> [i \in Indices(t) |-> 0],
                      started |-> [i \in Indices(t) |-> 0],
                      currentIndex |-> [w \in 1..n |-> 0],
                      attemptNo |-> [w \in 1..n |-> 0],
                      inflight |-> [w \in 1..n |-> {}],
                      issued |-> [w \in 1..n |-> <<>>],
                      timer |-> [w \in 1..n |-> 0],
                      wpc |-> [w \in 1..n |-> "new"]]
        IN  /\ entries' = es
            /\ total' = t
            /\ results' = [i \in Indices(t) |-> Hole]
            /\ completed' = 0
            /\ outcomes' = [i \in Indices(t) |-> <<>>]
            /\ paused' = [i \in Indices(t) |-> <<>>]
            /\ Install(StartWorkers(fresh, n, t))
    /\ mainPc' = "awaitAll"
    /\ UNCHANGED helperVars
    /\ UNCHANGED <<CONCURRENCY, exitCode, output, writes, indexFailed>>

\* Promise.all(workers) resolves: filter, sort, write the file, return
WriteDataset ==
    /\ mainPc = "awaitAll"
    /\ AllWorkersDone
    /\ output' = FilteredResults(results, total)
    /\ writes' = writes + 1
    /\ mainPc' = "done"
    /\ UNCHANGED helperVars
    /\ UNCHANGED <<indexFailed, CONCURRENCY, exitCode, entries, total, results, pointer,
                   completed, wpc, currentIndex, attemptNo, inflight, timer,
                   claimCount, started, outcomes, paused, issued>>

(***************************************************************************)
(* worker(workerId)                                                        *)
(***************************************************************************)
\* the end of an iteration: completed += 1, then await sleep(100)
Settle(w, slot, outcome) ==
    LET i == currentIndex[w]
    IN  /\ results' = [results EXCEPT ![i] = slot]
        /\ outcomes' = [outcomes EXCEPT ![i] = Append(@, outcome)]
        /\ completed' = completed + 1
        /\ wpc' = [wpc EXCEPT ![w] = "throttle"]
        /\ timer' = [timer EXCEPT ![w] = ThrottleAfter(outcome)]
        /\ inflight' = [inflight EXCEPT ![w] = {}]
        /\ issued' = [issued EXCEPT ![w] = <<>>]

\* a sub-request of the current attempt resolves: the next one is issued,
\* or the payload is built and stored
SubFetchResolves(w) ==
    /\ mainPc = "awaitAll"
    /\ wpc[w] = "fetch"
    /\ \E k \in inflight[w], hasEvolution \in BOOLEAN, hasLocations \in BOOLEAN :
        LET next == NextRequests(k, hasEvolution, hasLocations)
            rest == (inflight[w] \ {k}) \cup next
        IN  IF rest # {}
            THEN /\ inflight' = [inflight EXCEPT ![w] = rest]
                 /\ issued' = [issued EXCEPT ![w] =
                        IF next = {} THEN @
                        ELSE Append(@, CHOOSE x \in next : TRUE)]
                 /\ UNCHANGED <<results, outcomes, completed, wpc, timer>>
            ELSE Settle(w, Payload(entries[currentIndex[w] + 1]), "ok")
    /\ UNCHANGED helperVars
    /\ UNCHANGED <<indexFailed, CONCURRENCY, mainPc, exitCode, entries, total, pointer,
                   currentIndex, attemptNo, output, writes, claimCount,
                   started, paused>>

\* a sub-request of the current attempt rejects (or its response is not ok):
\* fetchPokemonDetail throws
SubFetchFails(w) ==
    /\ mainPc = "awaitAll"
    /\ wpc[w] = "fetch"
    /\ inflight[w] # {}
    /\ IF RetryAllowed(attemptNo[w])
       THEN /\ pointer' = Min(pointer, total)
            /\ outcomes' = [outcomes EXCEPT ![currentIndex[w]] = Append(@, "fail")]
            /\ wpc' = [wpc EXCEPT ![w] = "backoff"]
            /\ timer' = [timer EXCEPT ![w] = BACKOFF_MS]
            /\ inflight' = [inflight EXCEPT ![w] = {}]
            /\ issued' = [issued EXCEPT ![w] = <<>>]
            /\ UNCHANGED <<results, completed>>
       ELSE /\ Settle(w, Null, "fail")
            /\ UNCHANGED pointer
    /\ UNCHANGED helperVars
    /\ UNCHANGED <<indexFailed, CONCURRENCY, mainPc, exitCode, entries, total,
                   currentIndex, attemptNo, output, writes, claimCount,
                   started, paused>>

\* the sleep(500) of the catch block is over: the retry issues the base
\* request again
BackoffElapsed(w) ==
    /\ mainPc = "awaitAll"
    /\ wpc[w] = "backoff"
    /\ paused' = [paused EXCEPT ![currentIndex[w]] = Append(@, timer[w])]
    /\ started' = [started EXCEPT ![currentIndex[w]] = @ + 1]
    /\ attemptNo' = [attemptNo EXCEPT ![w] = @ + 1]
    /\ inflight' = [inflight EXCEPT ![w] = {"base"}]
    /\ issued' = [issued EXCEPT ![w] = <<"base">>]
    /\ timer' = [timer EXCEPT ![w] = 0]
    /\ wpc' = [wpc EXCEPT ![w] = "fetch"]
    /\ UNCHANGED helperVars
    /\ UNCHANGED <<indexFailed, CONCURRENCY, mainPc, exitCode, entries, total, results,
                   pointer, completed, currentIndex, output, writes,
                   claimCount, outcomes>>

\* the sleep at the end of the iteration is over: back to the loop top
ThrottleElapsed(w) ==
    /\ mainPc = "awaitAll"
    /\ wpc[w] = "throttle"
    /\ Install(LoopTop(Touched, w, total))
    /\ UNCHANGED helperVars
    /\ UNCHANGED <<indexFailed, CONCURRENCY, mainPc, exitCode, entries, total, results,
                   completed, output, writes, outcomes, paused>>

Next ==
    \/ IndexFetchFails
    \/ IndexFetchResolves
    \/ WriteDataset
    \/ \E w \in Workers : SubFetchResolves(w)
    \/ \E w \in Workers : SubFetchFails(w)
    \/ \E w \in Workers : BackoffElapsed(w)
    \/ \E w \in Workers : ThrottleElapsed(w)

Spec == Init /\ [][Next]_vars

(***************************************************************************)
(* The helpers on their own: a call of fetchEvolutionChain, and a call of  *)
(* fetchLocations, on every response within the bounds.                    *)
(***************************************************************************)
MainIdle ==
    /\ CONCURRENCY = ConcurrencyOf(Unset)
    /\ MainStarted

InitEvo ==
    /\ MainIdle
    /\ LocIdle
    /\ MovesIdle
    /\ QueryIdle
    /\ SuggestIdle
    /\ Mounted
    /\ evoInput \in EvoInputs
    /\ evoChain = <<>>
    /\ evoPc = "call"

NextEvo == FetchEvolutionChain

SpecEvo == InitEvo /\ [][NextEvo]_vars

InitLoc ==
    /\ MainIdle
    /\ EvoIdle
    /\ MovesIdle
    /\ QueryIdle
    /\ SuggestIdle
    /\ Mounted
    /\ locInput \in LocInputs
    /\ locResult = [locations |-> <<>>, examined |-> 0]
    /\ locPc = "call"

NextLoc == FetchLocations

SpecLoc == InitLoc /\ [][NextLoc]_vars

InitMoves ==
    /\ MainIdle
    /\ EvoIdle
    /\ LocIdle
    /\ QueryIdle
    /\ SuggestIdle
    /\ Mounted
    /\ moveInput \in MoveInputs
    /\ moveResult = <<>>
    /\ movePc = "call"

NextMoves == ExtractMoves

SpecMoves == InitMoves /\ [][NextMoves]_vars

InitQuery ==
    /\ MainIdle
    /\ EvoIdle
    /\ LocIdle
    /\ MovesIdle
    /\ SuggestIdle
    /\ Mounted
    /\ queryInput \in [collection : Collections, filters : FilterStates]
    /\ queryResult = <<>>
    /\ queryPc = "call"

NextQuery == FilterAndSort

SpecQuery == InitQuery /\ [][NextQuery]_vars

InitSuggest ==
    /\ MainIdle
    /\ EvoIdle
    /\ LocIdle
    /\ MovesIdle
    /\ QueryIdle
    /\ Mounted
    /\ suggestInput \in [collection : Collections, query : SuggestQueries,
                         max : SuggestLimits]
    /\ suggestResult = <<>>
    /\ suggestPc = "call"

NextSuggest == Autocomplete

SpecSuggest == InitSuggest /\ [][NextSuggest]_vars

\* the explorer from its mounting on
InitExplorer ==
    /\ MainIdle
    /\ EvoIdle
    /\ LocIdle
    /\ MovesIdle
    /\ QueryIdle
    /\ SuggestIdle
    /\ Mounted

NextExplorer ==
    \/ \E value \in TypedValues : HandleSearchChange(value)
    \/ \E k \in DOMAIN ALL_POKEMON : HandleSuggestionSelect(ALL_POKEMON[k])
    \/ \E type \in ALL_TYPES : ToggleType(type)
    \/ \E value \in {"all"} \cup ALL_GENERATIONS : SelectGeneration(value)
    \/ \E value \in LEGENDARY_OPTIONS : HandleLegendaryChange(value)
    \/ \E value \in SORT_LABELS : HandleSortChange(value)
    \/ ClearFilters
    \/ \E key \in Keys : HandleKeyDown(key)
    \/ Focus
    \/ Blur
    \/ BlurTimeout

SpecExplorer == InitExplorer /\ [][NextExplorer]_vars

(***************************************************************************)
(* Properties of the ingestion run.                                        *)
(***************************************************************************)
Last(s) == s[Len(s)]

Settled(i) == results[i] # Hole

TwoFailures(i) == outcomes[i] = <<"fail", "fail">>

RetrySucceeded(i) == outcomes[i] = <<"fail", "ok">>

OutputIds == {output[k].id : k \in DOMAIN output}

\* C1: with a pool of at least one worker, no index is claimed twice, the
\* claimed indices are exactly those below the cursor (none is skipped), two
\* workers never hold the same index, and when the run is over every index
\* 0..total-1 has been claimed exactly once.
C1_EveryIndexClaimedOnce ==
    Len(wpc) >= 1 =>
        /\ \A i \in DOMAIN claimCount : claimCount[i] <= 1
        /\ \A i \in DOMAIN claimCount : claimCount[i] = 1 <=> i < pointer
        /\ \A v, w \in Workers :
              (v # w /\ wpc[v] # "done" /\ wpc[w] # "done")
                  => currentIndex[v] # currentIndex[w]
        /\ mainPc = "done" => \A i \in Indices(total) : claimCount[i] = 1

\* two workers have shared three indices and the run is over
C1_Witness ==
    /\ mainPc = "done"
    /\ Len(wpc) = 2
    /\ total = 3
    /\ \A i \in Indices(total) : claimCount[i] = 1

\* C2: an index sees at most two attempts; the second one starts only after
\* the first failed and the backoff pause has elapsed; an index settled after
\* a failed first attempt has had its retry; a successful first attempt is
\* never followed by a retry; two failures leave the null placeholder.
C2_RetryExactlyOnce ==
    \A i \in DOMAIN started :
        /\ started[i] <= 2
        /\ Len(outcomes[i]) <= started[i]
        /\ started[i] = 2 =>
              /\ Len(outcomes[i]) >= 1
              /\ outcomes[i][1] = "fail"
              /\ paused[i] = <<BACKOFF_MS>>
        /\ started[i] < 2 => paused[i] = <<>>
        /\ (Settled(i) /\ outcomes[i][1] = "fail") => started[i] = 2
        /\ (Len(outcomes[i]) >= 1 /\ outcomes[i][1] = "ok") =>
              /\ started[i] = 1
              /\ outcomes[i] = <<"ok">>
        /\ TwoFailures(i) => results[i] = Null

\* an index whose two attempts failed holds the null placeholder
C2_Witness ==
    \E i \in DOMAIN started :
        /\ TwoFailures(i)
        /\ started[i] = 2
        /\ results[i] = Null

\* C3: an item whose retry succeeded is in the written output; an item whose
\* two attempts failed is not, and no placeholder row is written for it; two
\* failures do not end the process, every item is settled all the same and
\* the dataset is written.
C3_PartialDataset ==
    /\ (\E i \in DOMAIN outcomes : TwoFailures(i)) =>
          /\ mainPc # "exited"
          /\ exitCode = 0
    /\ mainPc = "done" =>
          /\ \A k \in DOMAIN output : output[k].kind = "record"
          /\ \A i \in Indices(total) :
                /\ RetrySucceeded(i) =>
                      \E k \in DOMAIN output : output[k] = Payload(entries[i + 1])
                /\ TwoFailures(i) =>
                      /\ entries[i + 1] \notin OutputIds
                      /\ \A j \in Indices(total) : Settled(j)
                      /\ writes = 1
                      /\ Len(output) =
                            Cardinality({j \in Indices(total) : ~TwoFailures(j)})

\* a finished run in which one item needed its retry and another was lost
C3_Witness ==
    /\ mainPc = "done"
    /\ \E i, j \in Indices(total) :
          /\ RetrySucceeded(i)
          /\ TwoFailures(j)
          /\ entries[i + 1] \in OutputIds
          /\ entries[j + 1] \notin OutputIds

\* C4: when the index request fails no worker exists, no detail request was
\* ever issued, nothing is written, and the process has ended with a
\* non-zero status.
C4_IndexFailureIsFatal ==
    indexFailed =>
        /\ Workers = {}
        /\ \A i \in DOMAIN started : started[i] = 0
        /\ writes = 0
        /\ output = <<>>
        /\ mainPc = "exited"
        /\ exitCode # 0

\* the index request has failed
C4_Witness ==
    /\ indexFailed
    /\ mainPc = "exited"

\* C5: the file is written at most once, and exactly once by a run that has
\* returned; it is written only when every worker has left its loop, and it
\* holds exactly the payload slots, in strictly ascending order of
\* identifier.
C5_WrittenOnceSorted ==
    /\ writes <= 1
    /\ writes = 0 => output = <<>>
    /\ mainPc = "done" => writes = 1
    /\ writes = 1 =>
          /\ \A w \in Workers : wpc[w] = "done"
          /\ \A k \in DOMAIN output : output[k].kind = "record"
          /\ \A k \in 1..(Len(output) - 1) : output[k].id < output[k + 1].id
          /\ {output[k] : k \in DOMAIN output}
                = {results[i] : i \in {j \in Indices(total) : results[j].kind = "record"}}
          /\ Len(output) = Cardinality({j \in Indices(total) : results[j].kind = "record"})

\* a written dataset of two records whose slots were in descending order of
\* identifier, next to a null slot
C5_Witness ==
    /\ writes = 1
    /\ total = 3
    /\ Len(output) = 2
    /\ \E i \in Indices(total) : results[i] = Null
    /\ \E i, j \in Indices(total) :
          /\ i < j
          /\ results[i].kind = "record"
          /\ results[j].kind = "record"
          /\ results[i].id > results[j].id

\* the items whose detail fetch is in progress: claimed and not settled
InProgress == {i \in DOMAIN claimCount : claimCount[i] >= 1 /\ ~Settled(i)}

\* C6: once the pool exists it has exactly min(CONCURRENCY, item count)
\* workers, and at most that many items are in progress.
C6_PoolIsMin ==
    mainPc \in {"awaitAll", "done"} =>
        /\ ~CONCURRENCY.nan
        /\ Len(wpc) = Min(CONCURRENCY.val, total)
        /\ Cardinality(InProgress) <= Min(CONCURRENCY.val, total)

\* C7: a worker has at most one request outstanding, and it is the one it
\* issued last; the requests of an attempt are issued in the order base,
\* species, evolution chain, locations, starting with the base request (also
\* in the retry); once an attempt has failed nothing of it is outstanding.
C7_SubFetchesInSequence ==
    \A w \in Workers :
        /\ Cardinality(inflight[w]) <= 1
        /\ wpc[w] = "fetch" =>
              /\ issued[w] # <<>>
              /\ inflight[w] = {Last(issued[w])}
              /\ issued[w][1] = "base"
              /\ Len(issued[w]) >= 2 => issued[w][2] = "species"
        /\ \A k \in 1..(Len(issued[w]) - 1) :
              Rank(issued[w][k]) < Rank(issued[w][k + 1])
        /\ wpc[w] # "fetch" => inflight[w] = {} /\ issued[w] = <<>>

\* a retry that started again from the base request and went through the
\* four requests
C7_Witness ==
    \E w \in Workers :
        /\ attemptNo[w] = 2
        /\ issued[w] = SubFetches
        /\ inflight[w] = {"locations"}

\* C8: a worker claims an index from inside its loop only in the step in
\* which its throttle sleep of THROTTLE_MS ends, and every settled item,
\* whatever its outcome, leaves the worker in that sleep.
C8_ThrottleBeforeNextClaim ==
    [][ /\ \A i \in DOMAIN claimCount :
              claimCount'[i] > claimCount[i] =>
                  \E w \in Workers :
                      /\ wpc[w] = "throttle"
                      /\ timer[w] = THROTTLE_MS
                      /\ wpc'[w] = "fetch"
                      /\ currentIndex'[w] = i
        /\ \A w \in Workers :
              (wpc[w] = "fetch" /\ wpc'[w] # "fetch" /\ wpc'[w] # "backoff") =>
                  /\ wpc'[w] = "throttle"
                  /\ timer'[w] = THROTTLE_MS
                  /\ Settled(currentIndex[w])'
      ]_vars

\* one worker went through three items: the first failed twice, the second
\* succeeded on its retry, the third at once, and the worker has left
C8_Witness ==
    /\ Len(wpc) = 1
    /\ total = 3
    /\ TwoFailures(0)
    /\ RetrySucceeded(1)
    /\ outcomes[2] = <<"ok">>
    /\ wpc[1] = "done"

(***************************************************************************)
(* Properties of fetchEvolutionChain.                                      *)
(***************************************************************************)
\* the nodes of a tree, each named by the child positions that lead to it
RECURSIVE PathsOf(_)
PathsOf(node) ==
    {<<>>} \cup UNION {{<<k>> \o p : p \in PathsOf(node.evolves_to[k])}
                         : k \in DOMAIN node.evolves_to}

RECURSIVE NodeAt(_, _)
NodeAt(node, path) ==
    IF path = <<>> THEN node
    ELSE NodeAt(node.evolves_to[Head(path)], Tail(path))

\* p comes before q in pre-order: p is an ancestor of q, or p branches off
\* to an earlier child where the two part
PreOrderBefore(p, q) ==
    \/ /\ Len(p) < Len(q)
       /\ \A k \in 1..Len(p) : p[k] = q[k]
    \/ \E k \in 1..Min(Len(p), Len(q)) :
          /\ \A j \in 1..(k - 1) : p[j] = q[j]
          /\ p[k] < q[k]

\* C9: the chain has one entry per node of the tree, in pre-order; the stage
\* of an entry is the depth of its node; a node without species reference
\* is kept with null id and empty name, any other node keeps its species
\* name; a root with two childless evolutions gives stages 0, 1, 1.
C9_PreOrderStages ==
    (evoPc = "returned" /\ evoInput.hasUrl /\ ~evoInput.chain.absent) =>
        LET root == evoInput.chain
            paths == PathsOf(root)
            Position(p) == 1 + Cardinality({q \in paths : PreOrderBefore(q, p)})
        IN  /\ Len(evoChain) = Cardinality(paths)
            /\ \A p \in paths :
                  LET node == NodeAt(root, p)
                      entry == evoChain[Position(p)]
                  IN  /\ entry.stage = Len(p)
                      /\ entry.name = node.species.name
                      /\ ~node.species.present =>
                            /\ entry.id = NullId
                            /\ entry.name = ""
            /\ paths = {<<>>, <<1>>, <<2>>} =>
                  [k \in 1..3 |-> evoChain[k].stage] = <<0, 1, 1>>

\* a root with two branches, the first of which evolves further and the
\* second of which has no species reference
C9_Witness ==
    /\ evoPc = "returned"
    /\ evoInput.hasUrl
    /\ PathsOf(evoInput.chain) = {<<>>, <<1>>, <<1, 1>>, <<2>>}
    /\ ~NodeAt(evoInput.chain, <<2>>).species.present
    /\ NodeAt(evoInput.chain, <<1>>).species.present
    /\ [k \in 1..4 |-> evoChain[k].stage] = <<0, 1, 2, 1>>
    /\ evoChain[4].id = NullId
    /\ evoChain[4].name = ""

(***************************************************************************)
(* Properties of fetchLocations.                                           *)
(***************************************************************************)
\* an area name as displayed: every hyphen is a space
Humanized(name) == [k \in DOMAIN name |-> IF name[k] = "-" THEN " " ELSE name[k]]

Named(entry) == entry.hasName /\ entry.name # <<>>

\* the entries of data that bring a name no earlier entry has
FirstOccurrences(data) ==
    {k \in DOMAIN data :
        /\ Named(data[k])
        /\ \A j \in 1..(k - 1) :
              Named(data[j]) => Humanized(data[j].name) # Humanized(data[k].name)}

\* the first n of those entries
FirstN(data, n) ==
    {k \in FirstOccurrences(data) :
        Cardinality({j \in FirstOccurrences(data) : j < k}) < n}

\* C10: the result is the humanized names of the first 12 entries that
\* bring a new name (all of them if there are fewer), in the order of those
\* entries; it has no duplicates and at most 12 names; the loop reads the
\* entries up to the one that brought the 12th name and none after it, or
\* the whole list when there is no such entry.
C10_FirstTwelveDistinct ==
    (locPc = "returned" /\ locInput.hasUrl) =>
        LET data == locInput.data
            kept == FirstN(data, LOCATION_CAP)
            out == locResult.locations
            Position(k) == 1 + Cardinality({j \in kept : j < k})
        IN  /\ Len(out) = Cardinality(kept)
            /\ \A k \in kept : out[Position(k)] = Humanized(data[k].name)
            /\ Len(out) <= 12
            /\ \A a, b \in DOMAIN out : a # b => out[a] # out[b]
            /\ locResult.examined =
                  IF Cardinality(kept) = LOCATION_CAP
                  THEN CHOOSE k \in kept : \A j \in kept : j <= k
                  ELSE Len(data)

\* a list with more than 12 distinct names, a repeated name and an entry
\* without area among the entries read, and entries left unread
C10_Witness ==
    /\ locPc = "returned"
    /\ locInput.hasUrl
    /\ Len(locResult.locations) = 12
    /\ locResult.examined = LOCATION_CAP + 2
    /\ Len(locInput.data) > locResult.examined
    /\ \E k \in 1..locResult.examined : ~Named(locInput.data[k])
    /\ \E k \in 1..locResult.examined :
          Named(locInput.data[k]) /\ k \notin FirstOccurrences(locInput.data)

(***************************************************************************)
(* Properties of extractMoves.                                             *)
(***************************************************************************)
\* the level-up detail that decides the level of a move: the first one
LevelOf(move) ==
    LET ups == {k \in DOMAIN move.details : move.details[k].method = "level-up"}
    IN  IF ups = {} THEN NoLevel
        ELSE move.details[CHOOSE k \in ups : \A j \in ups : k <= j].level

\* the named entries of the input with and without a resolvable level
LevelUpEntries(moves) ==
    {k \in DOMAIN moves : moves[k].name # <<>> /\ ~LevelOf(moves[k]).null}
OtherEntries(moves) ==
    {k \in DOMAIN moves : moves[k].name # <<>> /\ LevelOf(moves[k]).null}

\* C11: the result is the level-up moves in ascending order of level (equal
\* levels in input order), cut to the 30 lowest, followed by the other moves
\* in input order, cut to the first 20: at most 50 moves, every level-up
\* move before every other move, levels non-decreasing in the level-up part.
C11_LevelUpThenOther ==
    (movePc = "returned" /\ moveInput.isArray) =>
        LET moves == moveInput.moves
            ups == LevelUpEntries(moves)
            others == OtherEntries(moves)
            Lower(j, k) ==
                \/ LevelOf(moves[j]).val < LevelOf(moves[k]).val
                \/ LevelOf(moves[j]).val = LevelOf(moves[k]).val /\ j < k
            UpRank(k) == 1 + Cardinality({j \in ups : Lower(j, k)})
            OtherRank(k) == 1 + Cardinality({j \in others : j < k})
            nUp == Min(30, Cardinality(ups))
            nOther == Min(20, Cardinality(others))
        IN  /\ Len(moveResult) = nUp + nOther
            /\ Len(moveResult) <= 50
            /\ \A k \in ups : UpRank(k) <= 30 =>
                  /\ moveResult[UpRank(k)].name = moves[k].name
                  /\ moveResult[UpRank(k)].levelLearnedAt = LevelOf(moves[k])
            /\ \A k \in others : OtherRank(k) <= 20 =>
                  /\ moveResult[nUp + OtherRank(k)].name = moves[k].name
                  /\ moveResult[nUp + OtherRank(k)].levelLearnedAt = NoLevel
            /\ \A a, b \in DOMAIN moveResult :
                  (a < b /\ ~moveResult[b].levelLearnedAt.null) =>
                      /\ ~moveResult[a].levelLearnedAt.null
                      /\ moveResult[a].levelLearnedAt.val <= moveResult[b].levelLearnedAt.val

\* more than 30 level-up moves given in descending order of level among
\* more than 20 other moves: both parts are cut
C11_Witness ==
    /\ movePc = "returned"
    /\ moveInput.isArray
    /\ Cardinality(LevelUpEntries(moveInput.moves)) > 30
    /\ Cardinality(OtherEntries(moveInput.moves)) > 20
    /\ LevelOf(moveInput.moves[1]).val > 30
    /\ Len(moveResult) = 50
    /\ moveResult[1].levelLearnedAt = Level(1)
    /\ moveResult[30].levelLearnedAt = Level(30)
    /\ moveResult[31].levelLearnedAt = NoLevel

(***************************************************************************)
(* Properties of the query engine.                                         *)
(***************************************************************************)
Range(s) == {s[k] : k \in DOMAIN s}

\* the clauses of the filtering predicate other than the type clause
PassesOtherClauses(r, f) ==
    /\ MatchesSearch(r, f.searchTerm)
    /\ MatchesGeneration(r, f.generation)
    /\ MatchesLegendary(r, f.legendary)

\* C12: with a non-empty type selection every record returned has all the
\* selected types, and every record of the collection that passes the other
\* clauses and has all the selected types is returned; with an empty
\* selection the records returned are those that pass the other clauses.
C12_AllSelectedTypes ==
    queryPc = "returned" =>
        LET c == queryInput.collection
            f == queryInput.filters
            selected == Range(f.selectedTypes)
        IN  /\ Range(queryResult) \subseteq Range(c)
            /\ \A r \in Range(queryResult) : selected \subseteq Range(r.types)
            /\ \A r \in Range(c) :
                  (PassesOtherClauses(r, f) /\ selected \subseteq Range(r.types))
                      => r \in Range(queryResult)
            /\ selected = {} =>
                  Range(queryResult) = {r \in Range(c) : PassesOtherClauses(r, f)}

\* two types are selected; a record with both is returned and a record with
\* only one of them, which passes the other clauses, is not
C12_Witness ==
    /\ queryPc = "returned"
    /\ Len(queryInput.filters.selectedTypes) = 2
    /\ queryResult # <<>>
    /\ \E r \in Range(queryInput.collection) :
          /\ PassesOtherClauses(r, queryInput.filters)
          /\ Range(r.types) \cap Range(queryInput.filters.selectedTypes) # {}
          /\ r \notin Range(queryResult)

\* the sum of a stat list, from its last entry down
RECURSIVE StatSum(_, _)
StatSum(stats, n) == IF n = 0 THEN 0 ELSE stats[n] + StatSum(stats, n - 1)

TotalOf(r) == StatSum(r.stats, Len(r.stats))

\* a comes before b in the alphabet, whatever the case: a is a proper prefix
\* of b, or has the earlier letter where the two first differ
NameBefore(a, b) ==
    LET x == ToLower(a)
        y == ToLower(b)
    IN  \/ Len(x) < Len(y) /\ SubSeq(y, 1, Len(x)) = x
        \/ \E k \in 1..Min(Len(x), Len(y)) :
              /\ SubSeq(x, 1, k - 1) = SubSeq(y, 1, k - 1)
              /\ Collation(x[k]) < Collation(y[k])

\* a goes before b under a sort option, equal keys in ascending id order
GoesBefore(a, b, sortBy) ==
    CASE sortBy = "id-asc" -> a.id < b.id
      [] sortBy = "id-desc" -> a.id > b.id
      [] sortBy = "name-asc" ->
            \/ NameBefore(a.name, b.name)
            \/ ToLower(a.name) = ToLower(b.name) /\ a.id < b.id
      [] OTHER ->
            \/ TotalOf(a) > TotalOf(b)
            \/ TotalOf(a) = TotalOf(b) /\ a.id < b.id

IdsOf(s) == [k \in DOMAIN s |-> s[k].id]

\* C13: the output holds each matching record once and is ordered by the key
\* of the sort option, records of equal key in ascending order of
\* identifier; totals 300, 500, 400 come out as 500, 400, 300.
C13_SortedByOption ==
    queryPc = "returned" =>
        LET c == queryInput.collection
            f == queryInput.filters
        IN  /\ Len(queryResult) = Cardinality({k \in DOMAIN c : MatchesFilters(c[k], f)})
            /\ \A j, k \in DOMAIN queryResult :
                  j < k => GoesBefore(queryResult[j], queryResult[k], f.sortBy)
            /\ ( /\ f.sortBy = "stat-total-desc"
                 /\ [k \in DOMAIN c |-> TotalOf(c[k])] = <<300, 500, 400>>
                 /\ Len(queryResult) = 3 )
                   => [k \in 1..3 |-> TotalOf(queryResult[k])] = <<500, 400, 300>>

\* the fixture of totals 300, 500, 400, and with it a tie: two records of
\* total 500 come out in ascending order of identifier
C13_Witness ==
    /\ queryPc = "returned"
    /\ queryInput.filters.sortBy = "stat-total-desc"
    /\ [k \in DOMAIN queryInput.collection |-> TotalOf(queryInput.collection[k])]
          = <<300, 500, 500>>
    /\ IdsOf(queryInput.collection) = <<4, 6, 146>>
    /\ IdsOf(queryResult) = <<6, 146, 4>>

\* the records of a collection whose name contains the normalized query
Matching(c, query) ==
    {k \in DOMAIN c : Includes(ToLower(c[k].name), ToLower(Trim(query)))}

\* C14: an empty or whitespace-only query gives the empty sequence; any
\* other query gives the first max records, in the order of the collection,
\* whose name contains the trimmed, case-folded query.
C14_FirstMatches ==
    suggestPc = "returned" =>
        LET c == suggestInput.collection
            query == suggestInput.query
            max == suggestInput.max
            hits == Matching(c, query)
            Place(k) == 1 + Cardinality({j \in hits : j < k})
        IN  IF \A k \in DOMAIN query : query[k] = " "
            THEN suggestResult = <<>>
            ELSE /\ Len(suggestResult) <= max
                 /\ Len(suggestResult) = Min(max, Cardinality(hits))
                 /\ \A k \in hits : Place(k) <= max => suggestResult[Place(k)] = c[k]
                 /\ \A k \in DOMAIN suggestResult :
                       Includes(ToLower(suggestResult[k].name), ToLower(Trim(query)))
                 /\ \A j, k \in DOMAIN suggestResult :
                       j < k => suggestResult[j].id < suggestResult[k].id

\* a query with blanks and capitals that three records match, cut to two
C14_Witness ==
    /\ suggestPc = "returned"
    /\ suggestInput.query = <<" ", "P", "I", " ">>
    /\ suggestInput.max = 2
    /\ Cardinality(Matching(suggestInput.collection, suggestInput.query)) = 3
    /\ IdsOf(suggestResult) = <<25, 172>>

(***************************************************************************)
(* Properties of the explorer.                                             *)
(***************************************************************************)
\* the step leaves every field of the FilterState but one as it was
OnlyFieldChanged(field) ==
    \A other \in DOMAIN filters : other # field => filters'[other] = filters[other]

\* C15: every handler replaces the FilterState by one that differs only in
\* the handler's own field (search change and suggestion select:
\* searchTerm; toggleType: selectedTypes; generation select: generation;
\* legendary radio: legendary; sort select: sortBy); clearFilters resets
\* every field to the default FilterState and closes the suggestion list;
\* focus, blur and the blur callback leave the FilterState alone.
C15_OwnFieldOnly ==
    [][ /\ lastEvent' \in {"change", "select", "keydown"} => OnlyFieldChanged("searchTerm")
        /\ lastEvent' = "toggleType" => OnlyFieldChanged("selectedTypes")
        /\ lastEvent' = "generation" => OnlyFieldChanged("generation")
        /\ lastEvent' = "legendary" => OnlyFieldChanged("legendary")
        /\ lastEvent' = "sort" => OnlyFieldChanged("sortBy")
        /\ lastEvent' = "clear" => filters' = DEFAULT_FILTERS /\ ~autocompleteOpen'
        /\ lastEvent' \in {"focus", "blur", "blurTimeout"} => filters' = filters
      ]_vars

\* the sort order has just been changed, and the other four fields still
\* have the values other than the default that earlier events gave them
C15_Witness ==
    /\ lastEvent = "sort"
    /\ filters.sortBy = "stat-total-desc"
    /\ filters.searchTerm = <<"p", "i">>
    /\ Len(filters.selectedTypes) = 2
    /\ filters.generation = "generation-ii"
    /\ filters.legendary = "mythical"

\* C18: highlightedIndex is null or an index into the current suggestion
\* list, also after the list has shrunk because the search term changed.
C18_HighlightInRange ==
    \/ highlightedIndex.isNull
    \/ highlightedIndex.index >= 0 /\ highlightedIndex.index < Len(suggestions)

\* C19: the callback scheduled by a blur, running when the input has the
\* focus again, leaves autocompleteOpen and highlightedIndex as the later
\* focus, typing and arrow-key events set them.
C19_StaleBlurIsHarmless ==
    [][ (lastEvent' = "blurTimeout" /\ focused)
            => /\ autocompleteOpen' = autocompleteOpen
               /\ highlightedIndex' = highlightedIndex ]_vars

(***************************************************************************)
(* Termination of the ingestion run.  Every request issued is eventually   *)
(* resolved or rejected, every sleep eventually ends, and a continuation   *)
(* that is ready eventually runs.                                          *)
(***************************************************************************)
\* the steps of worker w: a sub-request of its settles, or its sleep ends
WorkerStep(w) ==
    /\ w \in Workers
    /\ \/ SubFetchResolves(w)
       \/ SubFetchFails(w)
       \/ BackoffElapsed(w)
       \/ ThrottleElapsed(w)

Fairness ==
    /\ WF_vars(IndexFetchResolves \/ IndexFetchFails)
    /\ WF_vars(WriteDataset)
    /\ \A w \in 1..MaxTotal : WF_vars(WorkerStep(w))

SpecFair == Init /\ [][Next]_vars /\ Fairness

\* the run is over with the dataset written, every index claimed, every
\* slot settled and the counter at the item count
Terminated ==
    /\ mainPc = "done"
    /\ writes = 1
    /\ \A w \in Workers : wpc[w] = "done"
    /\ \A i \in Indices(total) : claimCount[i] >= 1 /\ Settled(i)
    /\ completed = total

\* C16: once the index is there and the pool has at least one worker, the
\* run eventually terminates with the dataset written, every index
\* 0..total-1 claimed, every slot settled to a record or to null, and the
\* completed counter equal to the item count.
C16_RunTerminates ==
    (mainPc = "awaitAll" /\ Cardinality(Workers) >= 1) ~> Terminated

\* a run of two workers over three indices is over, one index having failed
\* twice and another having succeeded at the retry
C16_Witness ==
    /\ Terminated
    /\ Cardinality(Workers) = 2
    /\ total = 3
    /\ \E i, j \in Indices(total) : TwoFailures(i) /\ RetrySucceeded(j)

\* C17: whatever the configured concurrency, the dataset is written only
\* when every index of the list has been claimed, and the number of records
\* written is the number of indices whose last attempt succeeded.
C17_NoWriteWhileUnclaimed ==
    writes >= 1 =>
        /\ \A i \in Indices(total) : claimCount[i] >= 1
        /\ Len(output) = Cardinality({i \in Indices(total) :
                              outcomes[i] # <<>> /\ Last(outcomes[i]) = "ok"})

====
